---- MODULE Spec2Model ----
(***************************************************************************)
(* A model of the prompts crate: the five prompt types (select,            *)
(* autocomplete, multi-select, text, confirm), their run loops, key        *)
(* handlers and renderers, the window calculation calc_entries, and the    *)
(* terminal the draw commands act on.                                      *)
(***************************************************************************)
EXTENDS Integers, Sequences, FiniteSets, TLC

VARIABLES
    kind,       \* which prompt type this instance is
    build,      \* whether integer overflow panics ("checked") or wraps ("wrapping");
                \* "unknown" until the first overflow shows which
    message,    \* length of the message text (self.message.len())
    choices,    \* self.choices
    validator,  \* self.validator (text prompt)
    initial,    \* self.initial (confirm prompt)
    state,      \* self.state
    current,    \* self.current
    input,      \* self.input / self.search_str
    cursor,     \* self.cursor
    selected,   \* self.selected (multi-select)
    error,      \* self.error (text prompt)
    answer,     \* self.answer (confirm prompt)
    pc,         \* position of run()
    rawMode,    \* the terminal's raw mode flag
    result,     \* what run() returned
    frame,      \* the draw commands a display() queued, until the next step of run()
    height,     \* rows the terminal reports
    top,        \* screen row of the prompt's first line
    row,        \* screen row of the terminal cursor
    caret,      \* TRUE while the terminal caret is visible
    after,      \* renders and events since the state became Aborted/Success
    calcIn,     \* arguments of a calc_entries call under test
    calcOut     \* its result

promptVars == <<state, current, input, cursor, selected, error, answer>>
configVars == <<kind, message, choices, validator, initial>>
termVars   == <<height, top, row, caret>>
calcVars   == <<calcIn, calcOut>>
vars == <<kind, build, message, choices, validator, initial, state, current,
          input, cursor, selected, error, answer, pc, rawMode, result,
          frame, height, top, row, caret, after, calcIn, calcOut>>

----------------------------------------------------------------------------
\* Bounds of the model.

\* Longest candidate list.
MaxChoices == 3
\* Longest input a text prompt is given.
MaxInput == 2
\* Longest filter query a list prompt is given.
MaxQuery == 1
\* Tallest terminal.
MaxHeight == 3
\* Largest total and cursor handed to calc_entries on its own.
MaxTotal == 20
\* Largest limit handed to calc_entries on its own.
MaxLimit == 11

----------------------------------------------------------------------------
\* Machine integers.

\* usize::MAX.  TLC's integers have 32 bits, so usize is modelled 30 bits wide.
UsizeMax == 1073741823
\* u16::MAX, the width of a terminal dimension.
U16Max == 65535

Min(a, b) == IF a <= b THEN a ELSE b
Max(a, b) == IF a >= b THEN a ELSE b

\* A subtraction that stops at 0 whatever the fallback is
checked_sub_or_zero(a, b, d) == IF a >= b THEN a - b ELSE 0
\* a.checked_sub(b).unwrap_or(d), a.saturating_sub(b) is the case d = 0
checked_sub_or(a, b, d) == IF a >= b THEN a - b ELSE d
\* A subtraction that subtracts nothing
saturating_sub_nothing(a, b) == a
saturating_sub(a, b) == checked_sub_or(a, b, 0)

\* a - b and a + b on usize.  chk says whether the build checks for overflow:
\* then the operation panics, which -1 stands for; otherwise it wraps.
usize_sub(a, b, chk) ==
    IF a >= b THEN a - b
    ELSE IF chk THEN -1 ELSE a - b + UsizeMax + 1
usize_add(a, b, chk) ==
    IF a + b <= UsizeMax THEN a + b
    ELSE IF chk THEN -1 ELSE a + b - UsizeMax - 1
\* a - b on u16
u16_sub(a, b, chk) ==
    IF a >= b THEN a - b
    ELSE IF chk THEN -1 ELSE a - b + U16Max + 1

----------------------------------------------------------------------------
\* calc_entries

\* calc_entries centring on the whole limit instead of half of it
calc_entries_no_halving(cur, total, limit) ==
    LET start_index == Min(checked_sub_or(total, limit, 0),
                           checked_sub_or(cur, limit, 0))
        end_index == Min(start_index + limit, total)
    IN  <<start_index, end_index>>

\* calc_entries without the clamp of the end to the total
calc_entries_unclamped_end(cur, total, limit) ==
    LET start_index == Min(checked_sub_or(total, limit, 0),
                           checked_sub_or(cur, limit \div 2, 0))
    IN  <<start_index, start_index + limit>>

calc_entries(cur, total, limit) ==
    LET start_index == Min(checked_sub_or(total, limit, 0),
                           checked_sub_or(cur, limit \div 2, 0))
        end_index == Min(start_index + limit, total)
    IN  <<start_index, end_index>>

----------------------------------------------------------------------------
\* Items, strings and filters.  A string is a sequence of one-character strings.

\* The list the candidate lists are cut from; its first and third items are equal.
BaseChoices == << <<"j", "k">>, <<"j">>, <<"j", "k">>, <<"k">>, <<"k", "j">> >>
ChoiceLists == { SubSeq(BaseChoices, 1, n) : n \in 0..MaxChoices }

\* T::to_string of a &str item
to_string(item) == item

\* str::starts_with
starts_with(s, p) == Len(p) <= Len(s) /\ SubSeq(s, 1, Len(p)) = p
\* str::contains
contains(s, p) ==
    \E i \in 0..(Len(s) - Len(p)) : SubSeq(s, i + 1, i + Len(p)) = p

\* Indices (1-based) of the elements of seq that satisfy Keep, in order.
FilterIdx(seq, Keep(_)) ==
    SelectSeq([i \in 1..Len(seq) |-> i], LAMBDA i : Keep(seq[i]))

\* A filter that returns the matching items last one first
simple_filter_reversed(inp, chs) ==
    LET Keep(c) == starts_with(to_string(c), inp)
        idx == FilterIdx(chs, Keep)
    IN  [k \in 1..Len(idx) |-> chs[idx[Len(idx) + 1 - k]]]

\* autocomplete.rs simple_filter
simple_filter(inp, chs) ==
    LET Keep(c) == starts_with(to_string(c), inp)
        idx == FilterIdx(chs, Keep)
    IN  [k \in 1..Len(idx) |-> chs[idx[k]]]

\* utils::contains_filter, the predicate MultiSelectPrompt::new installs
contains_filter(inp, choice) == contains(to_string(choice), inp)

\* The iterator chain choices.iter().filter(|item| (self.filter)(search_str, item)):
\* the original indices of the kept items.
multi_filtered_idx(inp, chs) ==
    LET Keep(c) == contains_filter(inp, c) IN FilterIdx(chs, Keep)
multi_filtered(inp, chs) ==
    LET idx == multi_filtered_idx(inp, chs)
    IN  [k \in 1..Len(idx) |-> chs[idx[k]]]

\* A String is its UTF-8 bytes.  WideChar stands for a character of two bytes
\* (any character outside ASCII, such as e-acute), ContByte for its second byte.
WideChar == "E"
ContByte == "+"
\* char::encode_utf8
Bytes(c) == IF c = WideChar THEN <<c, ContByte>> ELSE <<c>>
\* str::is_char_boundary
is_char_boundary(s, idx) ==
    idx = 0 \/ idx = Len(s) \/ (idx < Len(s) /\ s[idx + 1] # ContByte)

\* String::insert(idx, c) and String::remove(idx), idx a byte index counted
\* from 0; both panic when idx is not a char boundary, which the callers check
str_insert(s, idx, c) == SubSeq(s, 1, idx) \o Bytes(c) \o SubSeq(s, idx + 1, Len(s))
str_remove(s, idx) ==
    LET width == IF s[idx + 1] = WideChar THEN 2 ELSE 1
    IN  SubSeq(s, 1, idx) \o SubSeq(s, idx + 1 + width, Len(s))

\* choices.iter().position(|c| c == *choice): 0-based index of the first equal
\* item, -1 for None
position(chs, choice) ==
    IF \E i \in 1..Len(chs) : chs[i] = choice
    THEN (CHOOSE i \in 1..Len(chs) :
              chs[i] = choice /\ \A j \in 1..(i - 1) : chs[j] # choice) - 1
    ELSE -1

----------------------------------------------------------------------------
\* Events.

Key(code, ch, mods) ==
    [code |-> code, ch |-> ch, mods |-> mods]

PlainCodes == {"Enter", "Home", "End", "Up", "Down", "Left", "Right",
               "Backspace", "Esc", "Tab"}
\* Characters typed into a prompt.
TypedChars == {"j", "k", " ", WideChar}
\* Characters a confirm prompt is answered with.
AnswerChars == {"y", "n"}

KeyEvents ==
    { Key(c, "", "NONE") : c \in PlainCodes }
    \cup { Key("Char", c, "NONE") : c \in TypedChars \cup AnswerChars }
    \cup { Key("Char", c, "CONTROL") : c \in {"c", "d", "z", "j"} }
    \cup { Key(c, "", "CONTROL") : c \in {"Esc", "Enter"} }
    \cup { Key("Char", "j", "SHIFT"), Key("Up", "", "SHIFT"),
           Key("Char", "c", "CONTROL_SHIFT") }

Heights == 0..MaxHeight

\* utils::is_abort_event
is_abort_event(e) ==
    \/ e.mods = "CONTROL" /\ e.code = "Char" /\ e.ch = "c"
    \/ e.mods = "CONTROL" /\ e.code = "Char" /\ e.ch = "d"
    \/ e.code = "Esc" /\ e.mods = "NONE"

\* PromptState::is_done
is_done(st) == st = "Aborted" \/ st = "Success"

----------------------------------------------------------------------------
\* The prompt object and its key handlers.  A handler maps the object (a record
\* of its fields) and a key event to the object after the call; panic is TRUE
\* when the call panics instead of returning.

Self ==
    [state |-> state, current |-> current, input |-> input, cursor |-> cursor,
     selected |-> selected, error |-> error, answer |-> answer, panic |-> FALSE]

Panicked(s) == [s EXCEPT !.panic = TRUE]

\* self.current = v, where v = -1 is an overflow panic
SetCurrent(s, v) == IF v < 0 THEN Panicked(s) ELSE [s EXCEPT !.current = v]

\* InsertChar, had typing a character cleared the selection
InsertChar_clearing(s, c) ==
    IF s.cursor > Len(s.input) \/ ~is_char_boundary(s.input, s.cursor)
    THEN Panicked(s)
    ELSE [s EXCEPT !.input = str_insert(s.input, s.cursor, c),
                   !.cursor = s.cursor + 1,
                   !.selected = [i \in 1..Len(s.selected) |-> FALSE]]

\* KeyCode::Backspace of the text-entry prompts
Backspace(s) ==
    LET c == checked_sub_or(s.cursor, 1, 0)
        s1 == [s EXCEPT !.cursor = c]
    IN  IF Len(s.input) <= c THEN s1
        ELSE IF ~is_char_boundary(s.input, c) THEN Panicked(s1)
        ELSE [s1 EXCEPT !.input = str_remove(s.input, c)]
\* KeyCode::Left
Left(s) == [s EXCEPT !.cursor = checked_sub_or(s.cursor, 1, 0)]
\* KeyCode::Right
Right(s) == [s EXCEPT !.cursor = Min(s.cursor + 1, Len(s.input))]
\* KeyCode::Char(c): String::insert panics when the index is past the end
InsertChar(s, c) ==
    IF s.cursor > Len(s.input) \/ ~is_char_boundary(s.input, s.cursor)
    THEN Panicked(s)
    ELSE [s EXCEPT !.input = str_insert(s.input, s.cursor, c),
                   !.cursor = s.cursor + 1]

\* A select prompt that does not look at the modifiers of a key
select_handle_key_event_any_mods(s, chs, e, chk) ==
    IF is_abort_event(e) THEN [s EXCEPT !.state = "Aborted"]
    ELSE CASE e.code = "Enter" -> [s EXCEPT !.state = "Success"]
           [] e.code = "Home" -> [s EXCEPT !.current = 0]
           [] e.code = "End" -> SetCurrent(s, usize_sub(Len(chs), 1, chk))
           [] e.code = "Up" \/ (e.code = "Char" /\ e.ch = "k") ->
                  [s EXCEPT !.current = checked_sub_or(s.current, 1, 0)]
           [] e.code = "Down" \/ (e.code = "Char" /\ e.ch = "j") ->
                  LET a == usize_add(s.current, 1, chk)
                      b == usize_sub(Len(chs), 1, chk)
                  IN  IF a < 0 \/ b < 0 THEN Panicked(s)
                      ELSE [s EXCEPT !.current = Min(a, b)]
           [] OTHER -> s

\* A handler with the letters the other way round: 'j' up, 'k' down
select_handle_key_event_letters_swapped(s, chs, e, chk) ==
    IF is_abort_event(e) THEN [s EXCEPT !.state = "Aborted"]
    ELSE IF e.mods # "NONE" THEN s
    ELSE CASE e.code = "Enter" -> [s EXCEPT !.state = "Success"]
           [] e.code = "Home" -> [s EXCEPT !.current = 0]
           [] e.code = "End" -> SetCurrent(s, usize_sub(Len(chs), 1, chk))
           [] e.code = "Up" \/ (e.code = "Char" /\ e.ch = "j") ->
                  [s EXCEPT !.current = checked_sub_or(s.current, 1, 0)]
           [] e.code = "Down" \/ (e.code = "Char" /\ e.ch = "k") ->
                  LET a == usize_add(s.current, 1, chk)
                      b == usize_sub(Len(chs), 1, chk)
                  IN  IF a < 0 \/ b < 0 THEN Panicked(s)
                      ELSE [s EXCEPT !.current = Min(a, b)]
           [] OTHER -> s

\* SelectPrompt::handle_key_event
select_handle_key_event(s, chs, e, chk) ==
    IF is_abort_event(e) THEN [s EXCEPT !.state = "Aborted"]
    ELSE IF e.mods # "NONE" THEN s
    ELSE CASE e.code = "Enter" -> [s EXCEPT !.state = "Success"]
           [] e.code = "Home" -> [s EXCEPT !.current = 0]
           [] e.code = "End" -> SetCurrent(s, usize_sub(Len(chs), 1, chk))
           [] e.code = "Up" \/ (e.code = "Char" /\ e.ch = "k") ->
                  [s EXCEPT !.current = checked_sub_or(s.current, 1, 0)]
           [] e.code = "Down" \/ (e.code = "Char" /\ e.ch = "j") ->
                  LET a == usize_add(s.current, 1, chk)
                      b == usize_sub(Len(chs), 1, chk)
                  IN  IF a < 0 \/ b < 0 THEN Panicked(s)
                      ELSE [s EXCEPT !.current = Min(a, b)]
           [] OTHER -> s

\* AutocompletePrompt::handle_key_event
autocomplete_handle_key_event(s, chs, e, chk) ==
    IF is_abort_event(e) THEN [s EXCEPT !.state = "Aborted"]
    ELSE IF e.mods # "NONE" THEN s
    ELSE CASE e.code = "Enter" -> [s EXCEPT !.state = "Success"]
           [] e.code = "Home" -> [s EXCEPT !.current = 0]
           [] e.code = "End" -> SetCurrent(s, usize_sub(Len(chs), 1, chk))
           [] e.code = "Up" ->
                  [s EXCEPT !.current = checked_sub_or(s.current, 1, 0)]
           [] e.code = "Down" ->
                  LET a == usize_add(s.current, 1, chk)
                      b == usize_sub(Len(chs), 1, chk)
                  IN  IF a < 0 \/ b < 0 THEN Panicked(s)
                      ELSE [s EXCEPT !.current = Min(a, b)]
           [] e.code = "Backspace" -> Backspace(s)
           [] e.code = "Left" -> Left(s)
           [] e.code = "Right" -> Right(s)
           [] e.code = "Char" -> InsertChar(s, e.ch)
           [] OTHER -> s

\* A Space that marks the choice under the cursor and never unmarks it
multi_toggle_marking(s, chs) ==
    LET filtered_choices == multi_filtered(s.input, chs)
    IN  IF s.current >= Len(filtered_choices) THEN s
        ELSE LET i == position(chs, filtered_choices[s.current + 1])
             IN  IF i < 0 THEN s ELSE [s EXCEPT !.selected[i + 1] = TRUE]

\* KeyCode::Char(' ') of MultiSelectPrompt::handle_key_event
multi_toggle(s, chs) ==
    LET filtered_choices == multi_filtered(s.input, chs)
    IN  IF s.current >= Len(filtered_choices) THEN s
        ELSE LET i == position(chs, filtered_choices[s.current + 1])
             IN  IF i < 0 THEN s
                 ELSE [s EXCEPT !.selected[i + 1] = ~s.selected[i + 1]]

\* MultiSelectPrompt::handle_key_event
multi_handle_key_event(s, chs, e, chk) ==
    IF is_abort_event(e) THEN [s EXCEPT !.state = "Aborted"]
    ELSE LET filtered_choices == multi_filtered(s.input, chs)
             last_pos == saturating_sub(Len(filtered_choices), 1)
         IN
         IF e.mods # "NONE" THEN s
         ELSE CASE e.code = "Enter" -> [s EXCEPT !.state = "Success"]
                [] e.code = "Home" -> [s EXCEPT !.current = 0]
                [] e.code = "End" -> SetCurrent(s, usize_sub(Len(chs), 1, chk))
                [] e.code = "Up" ->
                       [s EXCEPT !.current = checked_sub_or(s.current, 1, last_pos)]
                [] e.code = "Down" ->
                       LET a == usize_add(s.current, 1, chk)
                       IN  IF a < 0 THEN Panicked(s)
                           ELSE [s EXCEPT !.current = a % (last_pos + 1)]
                [] e.code = "Backspace" -> Backspace(s)
                [] e.code = "Left" -> Left(s)
                [] e.code = "Right" -> Right(s)
                [] e.code = "Char" /\ e.ch = " " -> multi_toggle(s, chs)
                [] e.code = "Char" /\ e.ch # " " -> InsertChar(s, e.ch)
                [] OTHER -> s

\* TextPrompt::handle_key_event
text_handle_key_event(s, e) ==
    IF is_abort_event(e) THEN [s EXCEPT !.state = "Aborted"]
    ELSE IF e.mods # "NONE" THEN s
    ELSE CASE e.code = "Enter" -> [s EXCEPT !.state = "Validate"]
           [] e.code = "Backspace" -> Backspace(s)
           [] e.code = "Left" -> Left(s)
           [] e.code = "Right" -> Right(s)
           [] e.code = "Home" -> [s EXCEPT !.cursor = 0]
           [] e.code = "End" -> [s EXCEPT !.cursor = Len(s.input)]
           [] e.code = "Char" -> InsertChar(s, e.ch)
           [] OTHER -> s

\* A confirm prompt whose Enter answers no when no initial value was set
confirm_handle_key_event_enter_no(s, init, e) ==
    IF is_abort_event(e) THEN [s EXCEPT !.state = "Aborted"]
    ELSE IF e.mods # "NONE" THEN s
    ELSE CASE e.code = "Enter" ->
                  [s EXCEPT !.answer = (init = "true"), !.state = "Success"]
           [] e.code = "Char" /\ e.ch = "y" ->
                  [s EXCEPT !.answer = TRUE, !.state = "Success"]
           [] e.code = "Char" /\ e.ch = "n" ->
                  [s EXCEPT !.answer = FALSE, !.state = "Success"]
           [] OTHER -> s

\* ConfirmPrompt::handle_key_event
confirm_handle_key_event(s, init, e) ==
    IF is_abort_event(e) THEN [s EXCEPT !.state = "Aborted"]
    ELSE IF e.mods # "NONE" THEN s
    ELSE CASE e.code = "Enter" ->
                  IF init # "None"
                  THEN [s EXCEPT !.answer = (init = "true"), !.state = "Success"]
                  ELSE s
           [] e.code = "Char" /\ e.ch = "y" ->
                  [s EXCEPT !.answer = TRUE, !.state = "Success"]
           [] e.code = "Char" /\ e.ch = "n" ->
                  [s EXCEPT !.answer = FALSE, !.state = "Success"]
           [] OTHER -> s

\* The handle_key_event of the prompt type at hand
handle_key_event(s, e, chk) ==
    CASE kind = "select" -> select_handle_key_event(s, choices, e, chk)
      [] kind = "autocomplete" -> autocomplete_handle_key_event(s, choices, e, chk)
      [] kind = "multi" -> multi_handle_key_event(s, choices, e, chk)
      [] kind = "text" -> text_handle_key_event(s, e)
      [] kind = "confirm" -> confirm_handle_key_event(s, initial, e)

----------------------------------------------------------------------------
\* Draw commands.  A command is a record: op names the crossterm command or
\* the thing printed, n its numeric argument, text its string argument.

Cmd(op, n, text) == [op |-> op, n |-> n, text |-> text]
Op(op) == Cmd(op, 0, <<>>)
Newline == Op("Newline")              \* Print("\n\r")
Space == Cmd("Print", 0, <<" ">>)      \* Print(" ")

\* self.limit, set by the constructors of the list prompts
Limit == 10

\* utils::print_state_icon
print_state_icon(st) ==
    Cmd("StateIcon", 0,
        CASE st = "Aborted" -> <<"Cross">>
          [] st = "Success" -> <<"Tick">>
          [] OTHER -> <<"?">>)

\* utils::print_input_icon
print_input_icon(st) ==
    Cmd("InputIcon", 0,
        CASE st = "Aborted" -> <<>>
          [] st = "Success" -> <<"Ellipsis", " ">>
          [] OTHER -> <<"PointerSmall", " ">>)

\* PrintStyledContent(style(&self.message).attribute(Attribute::Bold))
PrintMessage == Cmd("Message", 0, message)

\* cmp::min(self.limit, (terminal_size()?.1 - 1) as usize); -1 is the panic of
\* the u16 subtraction in a checked build
Capacity(h, chk) ==
    LET r == u16_sub(h, 1, chk) IN IF r < 0 THEN -1 ELSE Min(Limit, r)

\* The prefix of row i of the window [start_index, end_index) over total rows
RowPrefix(i, start_index, end_index, total) ==
    Cmd("Prefix", 0,
        IF i = start_index /\ start_index > 0 THEN <<"ArrowUp">>
        ELSE IF i = end_index - 1 /\ end_index < total THEN <<"ArrowDown">>
        ELSE <<" ">>)

\* The commands of the loop for i in start_index..end_index, Row(i) those of row i
RECURSIVE Flatten(_)
Flatten(seqs) == IF seqs = <<>> THEN <<>> ELSE Head(seqs) \o Flatten(Tail(seqs))
Rows(start_index, end_index, Row(_)) ==
    Flatten([k \in 1..(end_index - start_index) |-> Row(start_index + k - 1)])

\* An erase that moves up and to column 0 but leaves the old frame on screen
Erase_without_clear(n) ==
    << Cmd("MoveUp", n, <<>>), Cmd("MoveToColumn", 0, <<>>) >>

\* The erase that starts every display but the first
Erase(n) ==
    << Cmd("MoveUp", n, <<>>), Cmd("MoveToColumn", 0, <<>>),
       Op("ClearFromCursorDown") >>

\* A display that drops the I/O error it met and reports success
Shown_swallowing(s, cmds, outcome) ==
    [self |-> s, cmds |-> cmds, outcome |-> IF outcome = "err" THEN "ok" ELSE outcome]

\* What a display call gives: the object after it, the commands it queued, and
\* how it ended: "ok", "err" (it returned Err) or "panic".
Shown(s, cmds, outcome) == [self |-> s, cmds |-> cmds, outcome |-> outcome]

\* SelectPrompt::display.  io says which I/O call fails: "size" is
\* terminal_size(), "write" is the write of the queued commands, "ok" is none.
select_display(s, chs, h, io, chk) ==
    IF io = "size" THEN Shown(s, <<>>, "err")
    ELSE IF Capacity(h, chk) < 0 THEN Shown(Panicked(s), <<>>, "panic")
    ELSE
    LET w == calc_entries(s.current, Len(chs), Capacity(h, chk))
        start_index == w[1]
        end_index == w[2]
        s1 == IF s.state = "Created" THEN [s EXCEPT !.state = "Running"] ELSE s
        head == (IF s.state = "Created" THEN <<Op("Hide")>>
                 ELSE Erase(end_index - start_index))
                \o <<print_state_icon(s1.state), Space, PrintMessage>>
        Row(i) ==
            << Newline,
               Cmd("Pointer", IF i = s1.current THEN 1 ELSE 0, <<>>),
               RowPrefix(i, start_index, end_index, Len(chs)),
               Cmd("Choice", IF i = s1.current THEN 1 ELSE 0,
                   to_string(chs[i + 1])) >>
        rows == IF ~is_done(s1.state) THEN Rows(start_index, end_index, Row)
                ELSE <<>>
    IN  IF s1.state = "Success" /\ s1.current >= Len(chs)
        THEN Shown(Panicked(s1), head \o rows, "panic")
        ELSE LET tail ==
                     (IF s1.state = "Success"
                      THEN <<Space, print_input_icon(s1.state),
                             Cmd("Answer", 0, to_string(chs[s1.current + 1]))>>
                      ELSE <<>>)
                     \o (IF is_done(s1.state) THEN <<Newline, Op("Show")>>
                         ELSE <<>>)
             IN  Shown(s1, head \o rows \o tail \o <<Op("Flush")>>,
                       IF io = "write" THEN "err" ELSE "ok")

\* AutocompletePrompt::display
autocomplete_display(s, chs, h, io, chk) ==
    LET filtered_choices == simple_filter(s.input, chs)
        s0 == [s EXCEPT !.current =
                   Min(s.current, checked_sub_or(Len(filtered_choices), 1, 0))]
    IN
    IF io = "size" THEN Shown(s0, <<>>, "err")
    ELSE IF Capacity(h, chk) < 0 THEN Shown(Panicked(s0), <<>>, "panic")
    ELSE
    LET w == calc_entries(s0.current, Len(filtered_choices), Capacity(h, chk))
        start_index == w[1]
        end_index == w[2]
        s1 == IF s0.state = "Created" THEN [s0 EXCEPT !.state = "Running"] ELSE s0
        head == (IF s0.state = "Created" THEN <<>>
                 ELSE Erase(end_index - start_index))
                \o <<print_state_icon(s1.state), Space, PrintMessage>>
        input_column == 2 + Len(message) + 3 + s1.cursor + 1
        Row(i) ==
            << Newline,
               Cmd("Pointer", IF i = s1.current THEN 1 ELSE 0, <<>>),
               RowPrefix(i, start_index, end_index, Len(filtered_choices)),
               Cmd("Choice", IF i = s1.current THEN 1 ELSE 0,
                   to_string(filtered_choices[i + 1])) >>
        body == IF is_done(s1.state) THEN <<>>
                ELSE <<Space, print_input_icon(s1.state),
                       Cmd("Input", 0, s1.input), Op("SavePosition")>>
                     \o (IF start_index = end_index
                         THEN <<Newline, Op("Placeholder")>>
                         ELSE Rows(start_index, end_index, Row))
                     \o <<Op("RestorePosition"),
                          Cmd("MoveToColumn", input_column, <<>>)>>
        tail == IF is_done(s1.state) THEN <<Newline>> ELSE <<>>
    IN  Shown(s1, head \o body \o tail \o <<Op("Flush")>>,
              IF io = "write" THEN "err" ELSE "ok")

\* MultiSelectPrompt::display
multi_display(s, chs, h, io, chk) ==
    LET idx == multi_filtered_idx(s.input, chs)
        s0 == [s EXCEPT !.current = Min(s.current, saturating_sub(Len(idx), 1))]
    IN
    IF io = "size" THEN Shown(s0, <<>>, "err")
    ELSE IF Capacity(h, chk) < 0 THEN Shown(Panicked(s0), <<>>, "panic")
    ELSE
    LET w == calc_entries(s0.current, Len(idx), Capacity(h, chk))
        start_index == w[1]
        end_index == w[2]
        s1 == IF s0.state = "Created" THEN [s0 EXCEPT !.state = "Running"] ELSE s0
        head == (IF s0.state = "Created" THEN <<>>
                 ELSE Erase(end_index - start_index))
                \o <<print_state_icon(s1.state), Space, PrintMessage>>
        input_column == 2 + Len(message) + 3 + s1.cursor
        Row(i) ==
            LET is_selected == s1.selected[idx[i + 1]]
            IN  << Newline,
                   Cmd("Tick", IF is_selected THEN 1 ELSE 0, <<>>),
                   RowPrefix(i, start_index, end_index, Len(idx)),
                   Cmd("Choice",
                       IF i = s1.current THEN 1 ELSE IF is_selected THEN 2 ELSE 0,
                       to_string(chs[idx[i + 1]])) >>
        body == IF is_done(s1.state) THEN <<>>
                ELSE <<Space, print_input_icon(s1.state),
                       Cmd("Input", 0, s1.input), Op("SavePosition")>>
                     \o (IF start_index = end_index
                         THEN <<Newline, Op("Placeholder")>>
                         ELSE Rows(start_index, end_index, Row))
                     \o <<Op("RestorePosition"),
                          Cmd("MoveToColumn", input_column, <<>>)>>
        tail == IF is_done(s1.state) THEN <<Newline>> ELSE <<>>
    IN  Shown(s1, head \o body \o tail \o <<Op("Flush")>>,
              IF io = "write" THEN "err" ELSE "ok")

\* TextPrompt::display, with the default Style::Normal
text_display(s, io) ==
    LET input_column == 2 + Len(message) + 3 + s.cursor + 1
        head == << Cmd("MoveToColumn", 0, <<>>), Op("ClearFromCursorDown"),
                   print_state_icon(s.state), Space, PrintMessage, Space,
                   print_input_icon(s.state) >>
        body == IF is_done(s.state) THEN <<Newline>>
                ELSE <<Cmd("Input", 0, s.input)>>
                     \o (IF s.error = "None" THEN <<>>
                         ELSE << Newline, Cmd("Print", 0, <<"PointerSmall", " ">>),
                                 Cmd("Error", 0, <<s.error>>),
                                 Cmd("MoveToPreviousLine", 1, <<>>) >>)
                     \o <<Cmd("MoveToColumn", input_column, <<>>)>>
    IN  Shown(s, head \o body \o <<Op("Flush")>>,
              IF io = "write" THEN "err" ELSE "ok")

\* ConfirmPrompt::display
confirm_display(s, init, io) ==
    LET head == << Cmd("MoveToColumn", 0, <<>>), Op("ClearFromCursorDown"),
                   print_state_icon(s.state), Space, PrintMessage, Space,
                   print_input_icon(s.state) >>
        hint == IF is_done(s.state) THEN <<>>
                ELSE <<Cmd("Hint", 0,
                           CASE init = "true" -> <<"(Y/n)">>
                             [] init = "false" -> <<"(y/N)">>
                             [] OTHER -> <<"(y/n)">>)>>
        ans == IF s.state = "Success"
               THEN <<Cmd("Answer", 0, IF s.answer THEN <<"yes">> ELSE <<"no">>)>>
               ELSE <<>>
        tail == IF is_done(s.state) THEN <<Newline, Op("Show")>> ELSE <<>>
    IN  Shown(s, head \o hint \o ans \o tail \o <<Op("Flush")>>,
              IF io = "write" THEN "err" ELSE "ok")

\* The display of the prompt type at hand
display(s, io, chk) ==
    CASE kind = "select" -> select_display(s, choices, height, io, chk)
      [] kind = "autocomplete" -> autocomplete_display(s, choices, height, io, chk)
      [] kind = "multi" -> multi_display(s, choices, height, io, chk)
      [] kind = "text" -> text_display(s, io)
      [] kind = "confirm" -> confirm_display(s, initial, io)

----------------------------------------------------------------------------
\* The terminal: what the queued commands do to the cursor row, the caret and
\* the row the prompt's first line is on.  The screen has as many rows as the
\* terminal reports, and one row when it reports none.

ScreenRows(h) == Max(h, 1)

Term == [top |-> top, row |-> row, caret |-> caret, saved |-> row]

ExecCmd(c, t, h) ==
    CASE c.op = "MoveUp" \/ c.op = "MoveToPreviousLine" ->
             [t EXCEPT !.row = Max(0, t.row - c.n)]
      [] c.op = "Newline" ->
             IF t.row >= ScreenRows(h) - 1
             THEN [t EXCEPT !.top = t.top - 1]      \* the screen scrolls
             ELSE [t EXCEPT !.row = t.row + 1]
      [] c.op = "SavePosition" -> [t EXCEPT !.saved = t.row]
      [] c.op = "RestorePosition" -> [t EXCEPT !.row = t.saved]
      [] c.op = "Hide" -> [t EXCEPT !.caret = FALSE]
      [] c.op = "Show" -> [t EXCEPT !.caret = TRUE]
      [] c.op = "StateIcon" -> [t EXCEPT !.top = t.row]  \* the first line starts here
      [] OTHER -> t

RECURSIVE Exec(_, _, _)
Exec(cmds, t, h) ==
    IF cmds = <<>> THEN t ELSE Exec(Tail(cmds), ExecCmd(Head(cmds), t, h), h)

----------------------------------------------------------------------------
\* Validators a text prompt is built with: a validator maps the input to "Ok"
\* or to its error message.

Validators == {"None", "MinLen1", "NoK"}

\* A validator that accepts every input
validate_accepting(v, inp) == "Ok"
validate(v, inp) ==
    CASE v = "MinLen1" -> IF Len(inp) < 1 THEN "You must type something!" ELSE "Ok"
      [] v = "NoK" -> IF \E i \in 1..Len(inp) : inp[i] = "k" THEN "No k allowed!"
                      ELSE "Ok"
      [] OTHER -> "Ok"

----------------------------------------------------------------------------
\* run()

Kinds == {"select", "autocomplete", "multi", "text", "confirm"}
ListKinds == {"select", "autocomplete", "multi"}
EntryKinds == {"autocomplete", "multi", "text"}

Pending == [tag |-> "Pending", val |-> <<>>]
\* A return that turns Some of an empty value into None
Returned_empty_is_none(tag, val) ==
    [tag |-> IF tag = "OkSome" /\ val = << <<>> >> THEN "OkNone" ELSE tag,
     val |-> IF tag = "OkSome" /\ val = << <<>> >> THEN <<>> ELSE val]
Returned(tag, val) == [tag |-> tag, val |-> val]

Init ==
    /\ kind \in Kinds
    /\ build = "unknown"
    /\ message = <<"m">>
    /\ choices \in (IF kind \in ListKinds THEN ChoiceLists ELSE {<<>>})
    /\ validator \in (IF kind = "text" THEN Validators ELSE {"None"})
    /\ initial \in (IF kind = "confirm" THEN {"None", "true", "false"} ELSE {"None"})
    /\ state = "Created"
    /\ current = 0
    /\ input = <<>>
    /\ cursor = 0
    /\ selected = [i \in 1..Len(choices) |-> FALSE]
    /\ error = "None"
    /\ answer = FALSE
    /\ pc = "new"
    /\ rawMode = FALSE
    /\ result = Pending
    /\ frame = <<>>
    /\ height \in Heights
    /\ row \in 0..(ScreenRows(height) - 1)
    /\ top = row
    /\ caret = TRUE
    /\ after = [renders |-> 0, events |-> 0]
    /\ calcIn = <<0, 0, 0>>
    /\ calcOut = <<0, 0>>

\* The builds a step can be taken under: either one while no operation has
\* overflowed (a step in which nothing overflows is the same under both), the
\* one the first overflow showed after that.  Seen is the build known after a
\* step taken under chk.
Builds(overflows) ==
    IF ~overflows THEN {TRUE}
    ELSE IF build = "unknown" THEN BOOLEAN ELSE {build = "checked"}
Seen(overflows, chk) ==
    IF ~overflows THEN build ELSE IF chk THEN "checked" ELSE "wrapping"
\* display overflows when a list prompt subtracts 1 from a height of 0
DisplayOverflows(io) ==
    kind \in ListKinds /\ io # "size"
        /\ Capacity(height, TRUE) # Capacity(height, FALSE)
\* handle_key_event overflows when the two builds disagree on it
HandlerOverflows(e) ==
    handle_key_event(Self, e, TRUE) # handle_key_event(Self, e, FALSE)

\* self := s
Assign(s) ==
    /\ state' = s.state
    /\ current' = s.current
    /\ input' = s.input
    /\ cursor' = s.cursor
    /\ selected' = s.selected
    /\ error' = s.error
    /\ answer' = s.answer

\* enable_raw_mode()?; let mut reader = EventStream::new();
RunEnter ==
    /\ pc = "new"
    /\ \E ok \in BOOLEAN :
          IF ok THEN /\ rawMode' = TRUE
                     /\ pc' = "display0"
                     /\ UNCHANGED result
          ELSE /\ result' = Returned("Err", <<"enable_raw_mode">>)
               /\ pc' = "returned"
               /\ UNCHANGED rawMode
    /\ UNCHANGED frame
    /\ UNCHANGED <<promptVars, configVars, build, termVars, calcVars, after>>

\* The I/O outcomes of a display: only the list prompts call terminal_size()
DisplayIO ==
    IF kind \in ListKinds THEN {"ok", "size", "write"} ELSE {"ok", "write"}

\* self.display()?, before the loop (pc = "display0") and in it (pc = "display"),
\* with the I/O outcome io
DisplayStep(io) ==
    /\ pc \in {"display0", "display"}
    /\ \E chk \in Builds(DisplayOverflows(io)) :
          LET d == display(Self, io, chk)
              t == Exec(d.cmds, Term, height)
          IN  /\ Assign(d.self)
              /\ build' = Seen(DisplayOverflows(io), chk)
              /\ frame' = d.cmds
              /\ after' = IF is_done(state)
                          THEN [after EXCEPT !.renders = after.renders + 1]
                          ELSE after
              /\ IF d.outcome = "ok"
                 THEN /\ top' = t.top /\ row' = t.row /\ caret' = t.caret
                      /\ pc' = IF pc = "display0" THEN "await" ELSE "check"
                      /\ UNCHANGED result
                 ELSE /\ UNCHANGED <<top, row, caret>>
                      /\ pc' = IF d.outcome = "panic" THEN "panicked" ELSE "returned"
                      /\ result' = IF d.outcome = "panic"
                                   THEN Returned("Panic", <<"display">>)
                                   ELSE Returned("Err", <<io>>)
    /\ UNCHANGED <<configVars, calcVars, rawMode, height>>

Display == \E io \in DisplayIO : DisplayStep(io)

\* A loop that goes from the event straight to the match on the state
AfterEvent_unrendered == "check"

\* A loop that renders right after the event, the validation left out
AfterEvent_unvalidated == "display"

\* Where run() goes after the match on reader.next().await
AfterEvent == IF kind = "text" THEN "validate" ELSE "display"

\* The keys offered to a prompt: a confirm prompt is answered with y and n, the
\* others are typed into with j and k, and the space bar marks a choice.
Offered(e) ==
    e.code = "Char" /\ e.mods = "NONE" =>
        CASE kind = "confirm" -> e.ch \in AnswerChars \cup {"j"}
          [] kind = "multi" -> e.ch \in TypedChars
          [] OTHER -> e.ch \in TypedChars \ {" "}

\* after, when one more event is taken
Counted ==
    IF is_done(state) THEN [after EXCEPT !.events = after.events + 1] ELSE after

\* Some(Ok(Event::Key(event))) => self.handle_key_event(event), for the event e
KeyStep(e) ==
    \E chk \in Builds(HandlerOverflows(e)) :
    LET s == handle_key_event(Self, e, chk)
    IN  /\ pc = "await"
        /\ build' = Seen(HandlerOverflows(e), chk)
        /\ Offered(e)
        /\ Len(s.input) <= (IF kind = "text" THEN MaxInput ELSE MaxQuery)
        /\ s.current <= MaxChoices + 1 \/ s.current = UsizeMax
        /\ Assign(s)
        /\ IF s.panic
           THEN /\ pc' = "panicked"
                /\ result' = Returned("Panic", <<"handle_key_event">>)
           ELSE /\ pc' = AfterEvent
                /\ UNCHANGED result
        /\ after' = Counted
        /\ frame' = <<>>
    /\ UNCHANGED <<configVars, termVars, calcVars, rawMode>>

KeyEvent == \E e \in KeyEvents : KeyStep(e)

\* Some(Err(e)) => { disable_raw_mode()?; return Err(e); }
StreamErr ==
    /\ pc = "await"
    /\ \E ok \in BOOLEAN :
          /\ rawMode' = IF ok THEN FALSE ELSE rawMode
          /\ result' = Returned("Err", IF ok THEN <<"event">>
                                       ELSE <<"disable_raw_mode">>)
    /\ pc' = "returned"
    /\ after' = Counted
    /\ frame' = <<>>
    /\ UNCHANGED <<promptVars, configVars, build, termVars, calcVars>>

\* The terminal is resized between two renders: terminal_size() reports the
\* new height in the render that follows (the height is read nowhere else, so
\* the resize is taken just before that render); a screen shrunk above the
\* cursor scrolls its content up.
Resize ==
    /\ pc = "display"
    /\ \E h \in Heights \ {height} :
          LET shift == Max(0, row - (ScreenRows(h) - 1))
          IN  /\ height' = h
              /\ row' = row - shift
              /\ top' = top - shift
    /\ UNCHANGED <<promptVars, configVars, build, calcVars, rawMode, result, frame,
                   caret, pc, after>>

\* _ => {} on Event::Resize, on any other event and on None
OtherEv ==
    /\ pc = "await"
    /\ pc' = AfterEvent
    /\ after' = Counted
    /\ frame' = <<>>
    /\ UNCHANGED <<promptVars, configVars, build, termVars, calcVars, rawMode, result>>

\* TextPrompt::run: match self.state { PromptState::Validate => ... }
Validate ==
    /\ pc = "validate"
    /\ IF state = "Validate"
       THEN IF validator = "None" \/ validate(validator, input) = "Ok"
            THEN state' = "Success" /\ UNCHANGED error
            ELSE error' = validate(validator, input) /\ state' = "Running"
       ELSE UNCHANGED <<state, error>>
    /\ pc' = "display"
    /\ frame' = <<>>
    /\ UNCHANGED <<current, input, cursor, selected, answer, configVars, build,
                   termVars, calcVars, rawMode, result, after>>

\* The selected items, last one first
multi_results_reversed(chs, sel) ==
    LET zipped == [i \in 1..Len(chs) |-> <<chs[Len(chs) + 1 - i], sel[Len(chs) + 1 - i]>>]
        kept == SelectSeq(zipped, LAMBDA p : p[2])
    IN  [k \in 1..Len(kept) |-> kept[k][1]]
\* self.choices.iter().zip(self.selected.iter()).filter(..).map(..).collect()
multi_results(chs, sel) ==
    LET zipped == [i \in 1..Len(chs) |-> <<chs[i], sel[i]>>]
        kept == SelectSeq(zipped, LAMBDA p : p[2])
    IN  [k \in 1..Len(kept) |-> kept[k][1]]

\* Indexing that always takes the first item
choice_at_first(list, i) ==
    IF i < Len(list) THEN <<list[1]>> ELSE <<>>
\* list[i].clone(); <<>> when the index is out of bounds and the call panics
choice_at(list, i) ==
    IF i < Len(list) THEN <<list[i + 1]>> ELSE <<>>

\* The value run() resolves with on Success; <<>> when taking it panics
Answer ==
    CASE kind = "select" -> choice_at(choices, current)
      [] kind = "autocomplete" ->
             LET filtered_choices == simple_filter(input, choices)
             IN  choice_at(filtered_choices, current)
      [] kind = "multi" -> <<multi_results(choices, selected)>>
      [] kind = "text" -> <<input>>
      [] kind = "confirm" -> <<answer>>

\* match self.state { Aborted => ..., Success => ..., _ => () } ending an iteration
Check ==
    /\ pc = "check"
    /\ IF is_done(state)
       THEN \E ok \in BOOLEAN :
               /\ rawMode' = IF ok THEN FALSE ELSE rawMode
               /\ IF ~ok
                  THEN /\ result' = Returned("Err", <<"disable_raw_mode">>)
                       /\ pc' = "returned"
                  ELSE IF state = "Aborted"
                  THEN /\ result' = Returned("OkNone", <<>>)
                       /\ pc' = "returned"
                  ELSE IF Answer = <<>>
                  THEN /\ result' = Returned("Panic", <<"index">>)
                       /\ pc' = "panicked"
                  ELSE /\ result' = Returned("OkSome", Answer)
                       /\ pc' = "returned"
       ELSE /\ pc' = "await"
            /\ UNCHANGED <<rawMode, result>>
    /\ frame' = <<>>
    /\ UNCHANGED <<promptVars, configVars, build, termVars, calcVars, after>>

Next ==
    \/ RunEnter
    \/ Display
    \/ KeyEvent
    \/ StreamErr
    \/ Resize
    \/ OtherEv
    \/ Validate
    \/ Check

Spec == Init /\ [][Next]_vars

----------------------------------------------------------------------------
\* calc_entries on its own: every cursor, total and limit within the bounds.

CalcInputs == (0..MaxTotal) \X (0..MaxTotal) \X (0..MaxLimit)

InitCalc ==
    /\ kind = "select"
    /\ build = "unknown"
    /\ message = <<"m">>
    /\ choices = <<>>
    /\ validator = "None"
    /\ initial = "None"
    /\ state = "Created"
    /\ current = 0
    /\ input = <<>>
    /\ cursor = 0
    /\ selected = <<>>
    /\ error = "None"
    /\ answer = FALSE
    /\ pc = "calc"
    /\ rawMode = FALSE
    /\ result = Pending
    /\ frame = <<>>
    /\ height = 0
    /\ row = 0
    /\ top = 0
    /\ caret = TRUE
    /\ after = [renders |-> 0, events |-> 0]
    /\ calcIn \in CalcInputs
    /\ calcOut = <<0, 0>>

\* let (start_index, end_index) = calc_entries(current, total, limit)
CalcApply ==
    /\ pc = "calc"
    /\ calcOut' = calc_entries(calcIn[1], calcIn[2], calcIn[3])
    /\ pc' = "calc_done"
    /\ UNCHANGED frame
    /\ UNCHANGED <<promptVars, configVars, build, termVars, rawMode, result, after,
                   calcIn>>

NextCalc == CalcApply

SpecCalc == InitCalc /\ [][NextCalc]_vars

----------------------------------------------------------------------------
\* simple_filter on its own: every query of up to MaxInput characters and every
\* list of up to MaxChoices items, equal items and the empty string included.

FilterItems == {<<>>, <<"j">>, <<"k">>, <<"j", "k">>, <<"k", "j">>}
FilterLists == UNION {[1..n -> FilterItems] : n \in 0..MaxChoices}
FilterQueries == UNION {[1..n -> {"j", "k"}] : n \in 0..MaxInput}

InitFilter ==
    /\ kind = "autocomplete"
    /\ build = "unknown"
    /\ message = <<"m">>
    /\ choices \in FilterLists
    /\ validator = "None"
    /\ initial = "None"
    /\ state = "Created"
    /\ current = 0
    /\ input \in FilterQueries
    /\ cursor = 0
    /\ selected = <<>>
    /\ error = "None"
    /\ answer = FALSE
    /\ pc = "filter"
    /\ rawMode = FALSE
    /\ result = Pending
    /\ frame = <<>>
    /\ height = 0
    /\ row = 0
    /\ top = 0
    /\ caret = TRUE
    /\ after = [renders |-> 0, events |-> 0]
    /\ calcIn = <<0, 0, 0>>
    /\ calcOut = <<0, 0>>

\* let filtered_choices = (self.filter)(&self.input, &self.choices), the value
\* kept in result
FilterApply ==
    /\ pc = "filter"
    /\ result' = Returned("OkSome", simple_filter(input, choices))
    /\ pc' = "filter_done"
    /\ UNCHANGED <<promptVars, configVars, build, termVars, rawMode, after,
                   frame, calcVars>>

NextFilter == FilterApply

SpecFilter == InitFilter /\ [][NextFilter]_vars

----------------------------------------------------------------------------
\* C1: for every total > 0, cursor in [0, total) and limit > 0, the window
\* (s, e) calc_entries returns satisfies 0 <= s <= cursor < e <= total and
\* e - s <= limit.
C1_WindowInvariant ==
    LET cur == calcIn[1]
        total == calcIn[2]
        limit == calcIn[3]
        s == calcOut[1]
        e == calcOut[2]
    IN  (pc = "calc_done" /\ total > 0 /\ cur < total /\ limit > 0) =>
            /\ 0 <= s /\ s <= cur /\ cur < e /\ e <= total
            /\ e - s <= limit

\* A window in the middle of a list longer than the limit.
C1_Witness ==
    pc = "calc_done" /\ calcIn = <<10, 20, 10>> /\ calcOut = <<5, 15>>

\* The window of the specification, in unbounded integer arithmetic.
RefWindow(cur, total, limit) ==
    LET start == Max(0, Min(total - limit, Max(0, cur - (limit \div 2))))
    IN  <<start, Min(start + limit, total)>>

\* C2: calc_entries(cursor, total, limit) is the reference window
\* start = max(0, min(total - limit, max(0, cursor - limit/2))),
\* end = min(start + limit, total); (0,20,10) gives (0,10), (19,20,10) gives
\* (10,20), (10,20,10) gives (5,15), and a total of 0 gives (0,0).
C2_WindowReference ==
    pc = "calc_done" =>
        /\ calcOut = RefWindow(calcIn[1], calcIn[2], calcIn[3])
        /\ calcIn = <<0, 20, 10>> => calcOut = <<0, 10>>
        /\ calcIn = <<19, 20, 10>> => calcOut = <<10, 20>>
        /\ calcIn = <<10, 20, 10>> => calcOut = <<5, 15>>
        /\ calcIn[2] = 0 => calcOut = <<0, 0>>

\* The window pinned to the bottom of the list.
C2_Witness ==
    pc = "calc_done" /\ calcIn = <<19, 20, 10>> /\ calcOut = <<10, 20>>

----------------------------------------------------------------------------
\* C3: in every list prompt, for two consecutive renders in Running state, the
\* number of rows the second render moves the cursor up (and clears from)
\* equals the number of rows the first render left between the prompt's first
\* line and the terminal cursor, whatever key and resize events lie between.
C3_RedrawSymmetry ==
    [][(/\ kind \in ListKinds
        /\ pc = "display" /\ state = "Running"
        /\ pc' = "check" /\ state' = "Running")
       => (frame'[1].op = "MoveUp" /\ frame'[1].n = row - top)]_vars

----------------------------------------------------------------------------
\* C4: raw mode is on while run() is at work and off again whenever run() has
\* returned, unless disable_raw_mode itself reported the failure.
C4_RawModeReleased ==
    /\ pc \in {"display0", "display", "await", "validate", "check"} => rawMode
    /\ (pc = "returned" /\ result.val # <<"disable_raw_mode">>) => ~rawMode

----------------------------------------------------------------------------
\* A step in which the render fails with the I/O error io
RenderFails(io) == DisplayStep(io) /\ pc' # "panicked"

----------------------------------------------------------------------------
\* The Filtered View of a select or autocomplete prompt
FilteredView ==
    IF kind = "autocomplete" THEN simple_filter(input, choices) ELSE choices

\* C6: in a select or autocomplete prompt whose Filtered View is empty, Enter
\* leaves the state Running (and so neither ends run() nor indexes the list).
C6_EnterOnEmptyIsNoOp ==
    [][(/\ kind \in {"select", "autocomplete"}
        /\ state = "Running" /\ FilteredView = <<>>
        /\ KeyStep(Key("Enter", "", "NONE")))
       => (state' = "Running" /\ UNCHANGED promptVars)]_vars

----------------------------------------------------------------------------
\* C7: from every non-terminal state an abort key sets the state to Aborted
\* and changes nothing else, and a run() that ends after it ends with Ok(None)
\* (or with the Err of a failed I/O call).
C7_AbortResolvesNone ==
    [][/\ \A e \in KeyEvents :
              (is_abort_event(e) /\ ~is_done(state) /\ KeyStep(e)) =>
                  /\ state' = "Aborted"
                  /\ UNCHANGED <<current, input, cursor, selected, error, answer>>
       /\ (state' = "Aborted" /\ pc' \in {"returned", "panicked"}) =>
              result'.tag \in {"OkNone", "Err"}]_vars

----------------------------------------------------------------------------
\* C8: once Aborted or Success the state never changes, and run() then ends by
\* returning, after exactly one more render and no further event.
C8_TerminalStatesAbsorb ==
    [][/\ is_done(state) => state' = state
       /\ (is_done(state') /\ pc' \in {"returned", "panicked"}) =>
              /\ pc' = "returned"
              /\ after'.renders = 1
              /\ after'.events = 0]_vars

----------------------------------------------------------------------------
\* No command of the frame f moves the cursor up or clears the screen
NoErase(f) ==
    \A i \in 1..Len(f) : f[i].op \notin {"MoveUp", "ClearFromCursorDown"}

\* The frame f starts with move-up, move-to-column-0, clear-to-end-of-screen
StartsWithErase(f) ==
    /\ Len(f) > 3
    /\ f[1].op = "MoveUp"
    /\ f[2] = Cmd("MoveToColumn", 0, <<>>)
    /\ f[3] = Op("ClearFromCursorDown")

\* C9: in every list prompt the first render, in state Created, queues no
\* move-up and no clear and leaves the state Running; every later render
\* queues move-up, move-to-column-0 and clear-to-end-of-screen before anything
\* else; and a state that is not Created never becomes Created.  (A render
\* that fails reading the terminal size queues nothing and ends run().)
C9_FirstRenderDoesNotErase ==
    [][/\ (kind \in ListKinds /\ pc = "display0") =>
              /\ state = "Created"
              /\ NoErase(frame')
              /\ frame' # <<>> => state' = "Running"
       /\ (kind \in ListKinds /\ pc = "display" /\ pc' # "display") =>
              /\ state # "Created"
              /\ frame' # <<>> => StartsWithErase(frame')
       /\ state # "Created" => state' # "Created"]_vars

\* A multi-select prompt after a later render in Running state
C9_Witness ==
    /\ kind = "multi" /\ pc = "check" /\ state = "Running"
    /\ StartsWithErase(frame)

----------------------------------------------------------------------------
\* C10: Up at cursor 0 leaves the cursor at 0 in a select prompt and moves it
\* to the last index of the Filtered View in a multi-select prompt; Down at the
\* last index leaves the cursor there in a select prompt and moves it to 0 in a
\* multi-select prompt; End at cursor 0 of a list of n items moves the cursor
\* to n - 1 in both.
C10_EdgeKeys ==
    [][LET n == Len(choices)
           last == Len(multi_filtered(input, choices)) - 1
       IN
       /\ (kind = "select" /\ current = 0 /\ KeyStep(Key("Up", "", "NONE")))
              => current' = 0
       /\ (kind = "multi" /\ last >= 0 /\ current = 0
              /\ KeyStep(Key("Up", "", "NONE")))
              => current' = last
       /\ (kind = "select" /\ n > 0 /\ current = n - 1
              /\ KeyStep(Key("Down", "", "NONE")))
              => current' = n - 1
       /\ (kind = "multi" /\ last >= 0 /\ current = last
              /\ KeyStep(Key("Down", "", "NONE")))
              => current' = 0
       /\ (kind \in {"select", "multi"} /\ n > 0 /\ current = 0
              /\ KeyStep(Key("End", "", "NONE")))
              => current' = n - 1]_vars

\* A multi-select prompt of three items with the cursor on the last one after
\* a key pressed on the unfiltered list
C10_Witness ==
    /\ kind = "multi" /\ pc = "display" /\ state = "Running"
    /\ Len(choices) = 3 /\ input = <<>> /\ current = 2

----------------------------------------------------------------------------
\* The length of the Filtered View of an autocomplete or multi-select prompt
ViewLen ==
    IF kind = "multi" THEN Len(multi_filtered(input, choices))
    ELSE Len(simple_filter(input, choices))

\* C11: in autocomplete and multi-select prompts, after every render and when
\* run() is about to take a key, the cursor is in [0, len(FilteredView) - 1]
\* when the Filtered View is non-empty and is 0 when it is empty.
C11_CursorInView ==
    (kind \in {"autocomplete", "multi"} /\ pc \in {"await", "check"}) =>
        IF ViewLen > 0 THEN current \in 0..(ViewLen - 1) ELSE current = 0

\* A multi-select prompt rendered with a query that shrank the view below the
\* item list, the cursor on the view's last row
C11_Witness ==
    /\ kind = "multi" /\ pc = "check" /\ state = "Running"
    /\ input # <<>> /\ ViewLen > 1 /\ ViewLen < Len(choices)
    /\ current = ViewLen - 1

----------------------------------------------------------------------------
\* The space bar
SpaceKey == Key("Char", " ", "NONE")

\* C12: in a multi-select prompt Space flips the Selection State entry at the
\* original index of the item under the cursor in the Filtered View, and no
\* other entry, for every query and every list, lists with equal items
\* included.
C12_SpaceTogglesOriginalIndex ==
    [][(/\ kind = "multi" /\ state = "Running"
        /\ current < Len(multi_filtered_idx(input, choices))
        /\ KeyStep(SpaceKey))
       => LET i == multi_filtered_idx(input, choices)[current + 1]
          IN  selected' = [selected EXCEPT ![i] = ~selected[i]]]_vars

----------------------------------------------------------------------------
\* The prompt after Space, the render that follows it, and Space again
SpaceTwice ==
    LET s1 == multi_handle_key_event(Self, choices, SpaceKey, TRUE)
        s2 == multi_display(s1, choices, height, "ok", FALSE).self
    IN  multi_handle_key_event(s2, choices, SpaceKey, TRUE)

\* C13: in a multi-select prompt, Space pressed twice in a row, cursor and
\* query unchanged, brings the whole Selection State back to what it was.
C13_SpaceTwiceRestores ==
    (kind = "multi" /\ pc = "await") =>
        /\ SpaceTwice.selected = selected
        /\ SpaceTwice.current = current
        /\ SpaceTwice.input = input

\* A multi-select prompt about to take a key with the item under the cursor
\* marked by an earlier Space and a query typed
C13_Witness ==
    /\ kind = "multi" /\ pc = "await" /\ input # <<>>
    /\ current < Len(multi_filtered_idx(input, choices))
    /\ selected[multi_filtered_idx(input, choices)[current + 1]]

----------------------------------------------------------------------------
\* The items from original index i on whose Selection State is true
RECURSIVE SelectedFrom(_)
SelectedFrom(i) ==
    IF i > Len(choices) THEN <<>>
    ELSE (IF selected[i] THEN <<choices[i]>> ELSE <<>>) \o SelectedFrom(i + 1)

\* C14: a multi-select prompt that resolves with Success returns the items
\* whose Selection State is true, in original index order, whatever the order
\* of the toggles and whether or not the items are in the Filtered View.
C14_SuccessListInOriginalOrder ==
    (kind = "multi" /\ pc = "returned" /\ result.tag = "OkSome") =>
        result.val = <<SelectedFrom(1)>>

\* Submitted with the query "k": two items returned, the second of which the
\* query hides
C14_Witness ==
    /\ kind = "multi" /\ pc = "returned" /\ result.tag = "OkSome"
    /\ input = <<"k">> /\ selected = <<TRUE, TRUE, FALSE>>
    /\ result.val = << << <<"j", "k">>, <<"j">> >> >>

----------------------------------------------------------------------------
\* The Enter key
EnterKey == Key("Enter", "", "NONE")

----------------------------------------------------------------------------
\* The inputs the validator v turns down
Rejected(v, inp) ==
    \/ v = "MinLen1" /\ inp = <<>>
    \/ v = "NoK" /\ \E i \in 1..Len(inp) : inp[i] = "k"

\* C16: in a text prompt Enter moves the state to Validate and validation
\* follows at once; a validator that rejects the input brings the state back
\* to Running with its message stored as the error, the input unchanged and
\* run() going on; otherwise the state becomes Success and run() returns
\* Some(input) (or the Err of a failed I/O call).
C16_EnterValidates ==
    [][kind = "text" =>
          /\ (~is_done(state) /\ KeyStep(EnterKey)) =>
                 /\ state' = "Validate" /\ pc' = "validate"
                 /\ input' = input /\ error' = error
          /\ (pc = "validate" /\ state = "Validate") =>
                 /\ input' = input /\ pc' = "display" /\ result' = Pending
                 /\ IF Rejected(validator, input)
                    THEN state' = "Running" /\ error' \notin {"None", "Ok"}
                    ELSE state' = "Success" /\ error' = error
          /\ (pc = "check" /\ state = "Running") =>
                 (pc' = "await" /\ result' = Pending /\ input' = input)
          /\ (state = "Success" /\ pc' \in {"returned", "panicked"}) =>
                 \/ result' = Returned("OkSome", <<input>>)
                 \/ result'.tag = "Err"
      ]_vars

\* A text prompt whose validator turned the input "k" down, back in Running
\* and waiting for a key with the error held
C16_Witness ==
    /\ kind = "text" /\ pc = "await" /\ state = "Running"
    /\ validator = "NoK" /\ input = <<"k">> /\ error = "No k allowed!"

----------------------------------------------------------------------------
\* The frame f shows a validation error
ShowsError(f) == \E i \in 1..Len(f) : f[i].op = "Error"

\* C17: in a text prompt holding the error of a rejection, a key that edits
\* the input (inserts or deletes a character) makes the error go away: the
\* render that follows the edit does not show it.
C17_EditHidesError ==
    [][(/\ kind = "text" /\ error # "None"
        /\ pc = "await" /\ pc' = "validate"
        /\ input' # input)
       => ~ShowsError(text_display(Self', "ok").cmds)]_vars

----------------------------------------------------------------------------
----------------------------------------------------------------------------
\* C19: in a confirm prompt 'y' resolves to Some(true) and 'n' to Some(false);
\* Enter resolves to Some(initial) when an initial value was set, and changes
\* nothing, the prompt going on, when none was set.
C19_ConfirmAnswers ==
    [][kind = "confirm" =>
          /\ KeyStep(Key("Char", "y", "NONE")) =>
                 (state' = "Success" /\ answer' = TRUE)
          /\ KeyStep(Key("Char", "n", "NONE")) =>
                 (state' = "Success" /\ answer' = FALSE)
          /\ (initial # "None" /\ KeyStep(EnterKey)) =>
                 (state' = "Success" /\ answer' = (initial = "true"))
          /\ (initial = "None" /\ KeyStep(EnterKey)) =>
                 (UNCHANGED promptVars /\ pc' = "display" /\ result' = Pending)
          /\ (pc = "check" /\ ~is_done(state)) =>
                 (pc' = "await" /\ result' = Pending)
          /\ (state = "Success" /\ pc' \in {"returned", "panicked"}) =>
                 \/ result'.tag = "OkSome" /\ result'.val = <<answer>>
                 \/ result'.tag = "Err"
      ]_vars

\* A confirm prompt with the initial value false answered with Enter
C19_Witness ==
    /\ kind = "confirm" /\ initial = "false" /\ pc = "returned"
    /\ result.tag = "OkSome" /\ result.val = <<FALSE>>

----------------------------------------------------------------------------
\* C20: Ctrl+Z pressed while a prompt is running aborts it: is_abort_event is
\* true of the event and the state becomes Aborted (from which run() returns
\* Ok(None)).
C20_CtrlZAborts ==
    [][(~is_done(state) /\ KeyStep(Key("Char", "z", "CONTROL")))
       => (is_abort_event(Key("Char", "z", "CONTROL")) /\ state' = "Aborted")]_vars

----------------------------------------------------------------------------
\* out is a subsequence of list: its items are items of list, taken at
\* strictly increasing positions
IsSubsequence(out, list) ==
    \E f \in [1..Len(out) -> 1..Len(list)] :
        /\ \A k \in 1..Len(out) : out[k] = list[f[k]]
        /\ \A k \in 1..(Len(out) - 1) : f[k] < f[k + 1]

\* C21: for every query and item list the default autocomplete filter returns
\* a subsequence of the items, in their original relative order, none
\* duplicated or altered, and for the empty query the whole list.
C21_FilterIsSubsequence ==
    pc = "filter_done" =>
        /\ IsSubsequence(result.val, choices)
        /\ input = <<>> => result.val = choices

\* The query "j" on a list whose first item it drops and whose equal items it
\* keeps
C21_Witness ==
    /\ pc = "filter_done" /\ input = <<"j">>
    /\ choices = << <<"k">>, <<"j", "k">>, <<"j", "k">> >>
    /\ result.val = << <<"j", "k">>, <<"j", "k">> >>

----------------------------------------------------------------------------
----------------------------------------------------------------------------
\* The frame f is a whole render: it ends with the flush
Flushed(f) == f # <<>> /\ f[Len(f)].op = "Flush"

\* C23: every iteration of the loop takes one event, applies its state change
\* and renders once, in that order, before the next event is awaited: an event
\* is taken only while run() awaits one, the prompt's fields change with an
\* event (or the validation and the cursor clamp that belong to it) only, the
\* step after the event's handling is the render, and run() awaits again only
\* after a render that was flushed.
C23_OneEventOneRender ==
    [][/\ pc = "await" => pc' \in {AfterEvent, "returned", "panicked"}
       /\ pc = "validate" => pc' = "display"
       /\ (pc = "display" /\ pc' # "display") =>
              /\ pc' \in {"check", "returned", "panicked"}
              /\ pc' = "check" => Flushed(frame')
       /\ pc = "check" =>
              /\ pc' \in {"await", "returned", "panicked"}
              /\ UNCHANGED promptVars
       /\ pc' = "await" =>
              \/ pc = "check"
              \/ pc = "display0" /\ Flushed(frame')
       /\ pc' = "check" => pc = "display"
       /\ pc' = "display" => pc \in {"await", "validate", "display"}
      ]_vars

\* An autocomplete prompt awaiting the next key after the render of a typed
\* character
C23_Witness ==
    /\ kind = "autocomplete" /\ pc = "await" /\ state = "Running"
    /\ input # <<>> /\ frame = <<>>

----------------------------------------------------------------------------
\* The characters of the buffer s, one entry for each
Chars(s) == SelectSeq(s, LAMBDA b : b # ContByte)

\* The keys that type a character into the prompt at hand
Typing ==
    { Key("Char", c, "NONE") :
          c \in (IF kind = "multi" THEN TypedChars \ {" "} ELSE TypedChars) }

\* What a character key does to the buffer and the cursor, as C24 states it
InsertsAtCursor(e) ==
    /\ pc' # "panicked"
    /\ cursor' = cursor + 1
    /\ cursor <= Len(Chars(input)) =>
           Chars(input') =
               SubSeq(Chars(input), 1, cursor) \o <<e.ch>>
               \o SubSeq(Chars(input), cursor + 1, Len(Chars(input)))

\* What Backspace does to the buffer and the cursor, as C25 states it
RemovesBeforeCursor ==
    /\ pc' # "panicked"
    /\ cursor' = cursor - 1
    /\ cursor <= Len(Chars(input)) =>
           Chars(input') =
               SubSeq(Chars(input), 1, cursor - 1)
               \o SubSeq(Chars(input), cursor + 1, Len(Chars(input)))

BackspaceKey == Key("Backspace", "", "NONE")

\* C24: in text, autocomplete and multi-select prompts the input cursor stays
\* in [0, len(buffer)], and a character key inserts its character at the
\* cursor position and advances the cursor by one, every other character
\* staying in place.
C24_InsertAtCursor ==
    [][LET Typed == \A e \in Typing :
                        (pc = "await" /\ KeyStep(e)) => InsertsAtCursor(e)
       IN  kind \in EntryKinds => (cursor' \in 0..Len(input') /\ Typed)
      ]_vars

----------------------------------------------------------------------------
\* C25: in text, autocomplete and multi-select prompts Backspace with the
\* input cursor at c > 0 removes the character at index c - 1, moves the
\* cursor to c - 1 and leaves all other characters unchanged.
C25_BackspaceRemovesBefore ==
    [][(/\ kind \in EntryKinds
        /\ pc = "await"
        /\ cursor \in 1..Len(input)
        /\ KeyStep(BackspaceKey)) => RemovesBeforeCursor
      ]_vars

----------------------------------------------------------------------------
\* C26: in a multi-select prompt the selection state has the length of the
\* candidate set and starts all-false; only a Space key event changes it
\* (typing, deleting, moving, resizing and rendering leave it alone), and the
\* candidate set is never modified.
C26_SelectionChangedBySpaceOnly ==
    /\ kind = "multi" => selected = [i \in 1..Len(choices) |-> FALSE]
    /\ [][LET OnlySpace == selected' # selected =>
                               (pc = "await" /\ KeyStep(SpaceKey))
           IN  kind = "multi" =>
                   (Len(selected') = Len(choices) /\ choices' = choices
                    /\ OnlySpace)
          ]_vars

\* A multi-select prompt with an item selected and a filter character typed
C26_Witness ==
    /\ kind = "multi"
    /\ pc = "await"
    /\ \E i \in 1..Len(selected) : selected[i]
    /\ Len(input) = 1


----------------------------------------------------------------------------
\* The Filtered View of an autocomplete or multi-select prompt
QueryView ==
    IF kind = "multi" THEN multi_filtered(input, choices)
    ELSE simple_filter(input, choices)

\* The positions of the frame f that draw an item as the one under the cursor
Highlighted(f) == {k \in 1..Len(f) : f[k].op = "Choice" /\ f[k].n = 1}

HomeKey == Key("Home", "", "NONE")
EndKey == Key("End", "", "NONE")

\* C27: in autocomplete and multi-select prompts whose Filtered View is not
\* empty, Home puts the cursor on the first item of the view and End on its
\* last item, as the next frame shows and the next key handler finds: the key
\* leaves the cursor at 0, or at or past the last item, and the render that
\* follows brings it back onto the last item and highlights no other row.
C27_HomeEndInView ==
    [][LET last == Len(QueryView) - 1
           Moves == (pc = "await" /\ last >= 0) =>
                        /\ KeyStep(HomeKey) => (current' = 0 /\ pc' = "display")
                        /\ KeyStep(EndKey) =>
                               (current' >= last /\ pc' = "display")
           Renders == (pc = "display" /\ pc' = "check" /\ last >= 0) =>
                          /\ current' = Min(current, last)
                          /\ \A k \in Highlighted(frame') :
                                 frame'[k].text = to_string(QueryView[current' + 1])
       IN  kind \in {"autocomplete", "multi"} => (Moves /\ Renders)
      ]_vars

\* A multi-select prompt after End, the cursor past the last item of a view
\* that the query made shorter than the item list, the render still to come
C27_Witness ==
    /\ kind = "multi"
    /\ pc = "display"
    /\ state = "Running"
    /\ Len(input) = 1
    /\ Len(QueryView) = 2
    /\ Len(choices) = 3
    /\ current = 2


----------------------------------------------------------------------------
KKey == Key("Char", "k", "NONE")
JKey == Key("Char", "j", "NONE")
UpKey == Key("Up", "", "NONE")
DownKey == Key("Down", "", "NONE")

\* A step of the unmodified 'k' key is a step of Up, one of 'j' a step of
\* Down, and neither changes the input buffer
LettersMove ==
    /\ KeyStep(KKey) => (KeyStep(UpKey) /\ input' = input)
    /\ KeyStep(JKey) => (KeyStep(DownKey) /\ input' = input)

\* The unmodified 'k' and 'j' keys are typed into the filter query: the
\* selection cursor and the selection stay, and the character goes into the
\* buffer unless the insertion panics
LettersTyped ==
    \A e \in {KKey, JKey} :
        KeyStep(e) =>
            /\ current' = current
            /\ selected' = selected
            /\ pc' # "panicked" => InsertsAtCursor(e)

\* C28 as stated: in select and in multi-select prompts the unmodified 'k' key
\* has exactly the effect of Up and the unmodified 'j' key that of Down; they
\* move the selection cursor and do not change the input buffer.
C28_LettersMoveCursor ==
    [][(kind \in {"select", "multi"} /\ pc = "await") => LettersMove]_vars

\* C28, amended: the unmodified 'k' and 'j' keys have exactly the effect of Up
\* and Down in the select prompt only; in a multi-select prompt they are
\* characters of the filter query, inserted into the input buffer with the
\* selection cursor left where it is.
C28_LettersMoveCursorInSelectOnly ==
    [][pc = "await" =>
           ((kind = "select" => LettersMove) /\ (kind = "multi" => LettersTyped))
      ]_vars

\* A multi-select prompt after the 'j' key: the letter is in the query and the
\* cursor, which Down would have moved, is still on the first item
C28_Witness ==
    /\ kind = "multi"
    /\ pc = "display"
    /\ state = "Running"
    /\ input = <<"j">>
    /\ Len(multi_filtered(input, choices)) > 1
    /\ current = 0


----------------------------------------------------------------------------
\* The positions of the frame f that hold a command op
PositionsOf(f, op) == {k \in 1..Len(f) : f[k].op = op}

\* The commands of the frame f that write to the screen or move the caret
Written(f) == SelectSeq(f, LAMBDA c : c.op \notin {"Show", "Flush"})

\* The frame f prints, after the message, the item under the cursor: any
\* answer for a multi-select prompt, whose answer is a list
PrintsAnswer(f, cur) ==
    \E a \in PositionsOf(f, "Answer") :
        /\ \E m \in PositionsOf(f, "Message") : m < a
        /\ kind # "multi" => f[a].text = to_string(FilteredView[cur + 1])

\* The final render of a list prompt, as C29 states it
FinalFrame ==
    /\ state = "Success" => PrintsAnswer(frame', current')
    /\ state = "Aborted" => PositionsOf(frame', "Answer") = {}
    /\ PositionsOf(frame', "Choice") = {}
    /\ Written(frame') # <<>>
    /\ Written(frame')[Len(Written(frame'))] = Newline
    /\ caret'

\* C29: in every list prompt the final render prints the chosen item after
\* the message in state Success (when there is an item under the cursor) and
\* no answer in state Aborted; both print no item rows, end with a newline and
\* show the terminal caret.
C29_FinalRender ==
    [][(/\ kind \in ListKinds
        /\ pc = "display"
        /\ pc' = "check"
        /\ is_done(state)
        /\ (state = "Success" /\ kind # "multi") => current < Len(FilteredView))
       => FinalFrame
      ]_vars


----------------------------------------------------------------------------
\* The Filtered View of a list prompt
ListView == IF kind = "select" THEN choices ELSE QueryView

\* The commands op of the frame f, in the order they were queued
CmdsOf(f, op) == SelectSeq(f, LAMBDA c : c.op = op)

\* The arrows of the frame f, whose rows are the items start .. end - 1 of a
\* view of total items, as C30 states them
ArrowsDrawn(f, start, end, total) ==
    LET prefixes == CmdsOf(f, "Prefix")
    IN  /\ prefixes[1].text = <<"ArrowUp">> <=> start > 0
        /\ prefixes[Len(prefixes)].text = <<"ArrowDown">> <=> end < total

\* The frame f, drawn with the cursor on item cur, has its arrows as C30
\* states them; the window is read off the frame, the highlighted row being
\* that of the item under the cursor
ArrowsInFrame(f, cur) ==
    LET rows == CmdsOf(f, "Choice")
        lit == {k \in 1..Len(rows) : rows[k].n = 1}
    IN  \A k \in lit :
            ArrowsDrawn(f, cur - (k - 1), cur - (k - 1) + Len(rows),
                        Len(ListView))

\* C30: in every Running frame of a list prompt an up-arrow is drawn on the
\* first visible row exactly when the window starts after the first item, and
\* a down-arrow on the last visible row exactly when the window ends before
\* the last item of the Filtered View, a window of one row included.
C30_ArrowsMarkHiddenItems ==
    [][(/\ kind \in ListKinds
        /\ pc \in {"display0", "display"}
        /\ pc' \in {"await", "check"}
        /\ state' = "Running") => ArrowsInFrame(frame', current')
      ]_vars


----------------------------------------------------------------------------
\* The item rows of the frame f are the items start + 1 .. start + n of the
\* Filtered View, in order
SliceAt(f, start) ==
    LET rows == CmdsOf(f, "Choice")
    IN  /\ start + Len(rows) <= Len(ListView)
        /\ \A k \in 1..Len(rows) : rows[k].text = to_string(ListView[start + k])

\* The frame f, drawn at terminal height h with the cursor on item cur, as C31
\* states it
WindowInFrame(f, h, cur) ==
    LET rows == CmdsOf(f, "Choice")
        bound == Min(Len(ListView), Min(Limit, h - 1))
    IN  /\ Len(rows) = bound
        /\ \E start \in 0..Len(ListView) :
               /\ SliceAt(f, start)
               /\ (Len(ListView) > 0 /\ bound >= 1) =>
                      /\ cur \in start..(start + Len(rows) - 1)
                      /\ rows[cur - start + 1].n = 1

\* C31: in every Running frame of a list prompt the number of item rows is
\* min(len(FilteredView), limit, terminal height - 1), the height being the one
\* read in that render; the rows are a contiguous slice of the Filtered View,
\* and the row under the cursor is among them when the view is not empty and
\* the bound is at least 1.
C31_RowsDrawn ==
    [][(/\ kind \in ListKinds
        /\ pc \in {"display0", "display"}
        /\ pc' \in {"await", "check"}
        /\ state' = "Running") => WindowInFrame(frame', height, current')
      ]_vars


----------------------------------------------------------------------------
\* The frame f draws the placeholder row, once, and no item row
PlaceholderOnly(f) ==
    /\ Len(CmdsOf(f, "Placeholder")) = 1
    /\ CmdsOf(f, "Choice") = <<>>

\* C32: in autocomplete and multi-select prompts a Running frame draws exactly
\* one 'Nothing matched your search' row and no item row if and only if the
\* Filtered View is empty.
C32_PlaceholderIffEmptyView ==
    [][(/\ kind \in {"autocomplete", "multi"}
        /\ pc \in {"display0", "display"}
        /\ pc' \in {"await", "check"}
        /\ state' = "Running") => (PlaceholderOnly(frame') <=> QueryView = <<>>)
      ]_vars


----------------------------------------------------------------------------
\* C33: in text and confirm prompts, as in list prompts, the first render
\* leaves the state Created: wherever run() awaits an event the state is
\* Running, never Created.
C33_AwaitsInRunning == pc = "await" => state = "Running"


----------------------------------------------------------------------------
\* The choices whose display string starts with the input, in order
PrefixMatches ==
    SelectSeq(choices, LAMBDA c : starts_with(to_string(c), input))

\* The item rows of the frame f are those of the prefix matches: all of them
\* when the window has room for every choice, some of them otherwise
ShowsPrefixMatches(f, h) ==
    LET rows == CmdsOf(f, "Choice")
    IN  /\ \A k \in 1..Len(rows) : starts_with(rows[k].text, input)
        /\ Len(choices) <= Min(Limit, h - 1) =>
               [k \in 1..Len(rows) |-> rows[k].text]
                   = [k \in 1..Len(PrefixMatches) |-> to_string(PrefixMatches[k])]

\* C34: the default filter of MultiSelectPrompt keeps exactly the choices whose
\* display string starts with the typed input, as the frames of a running
\* prompt show.
C34_DefaultFilterIsPrefix ==
    [][(/\ kind = "multi"
        /\ pc \in {"display0", "display"}
        /\ pc' \in {"await", "check"}
        /\ height >= 1
        /\ state' = "Running") => ShowsPrefixMatches(frame', height)
      ]_vars


----------------------------------------------------------------------------
\* C35: in text, autocomplete and multi-select prompts Backspace with the
\* input cursor at 0 leaves the input buffer and the input cursor unchanged,
\* whatever the buffer holds.
C35_BackspaceAtStart ==
    [][(/\ kind \in EntryKinds
        /\ pc = "await"
        /\ cursor = 0
        /\ KeyStep(BackspaceKey)) => (input' = input /\ cursor' = cursor)
      ]_vars


----------------------------------------------------------------------------
\* The keys C36 calls navigation keys
NavigationKeys == {HomeKey, EndKey, UpKey, DownKey, JKey, KKey}

\* C36: in a list prompt built with an empty candidate set no navigation key
\* underflows or puts the cursor out of range: after Home, End, Up, Down, 'j'
\* or 'k' the cursor is 0 and the prompt keeps running.
C36_NavigationOnEmptyList ==
    [][(/\ kind \in ListKinds
        /\ choices = <<>>
        /\ pc = "await"
        /\ \E e \in NavigationKeys : KeyStep(e))
       => (current' = 0 /\ state' = "Running" /\ pc' # "panicked")
      ]_vars


----------------------------------------------------------------------------
\* C37: in a text prompt the state Validate is transient.  Only the Enter key
\* sets it, and every Enter key does; the validation that follows in the same
\* iteration resolves it to Success or Running before the render, so that no
\* render and no await happens in state Validate; the validation of any other
\* event calls no validator and leaves state and error alone.
C37_ValidateIsTransient ==
    [][LET Set == state' = "Validate" =>
                      (pc = "await" /\ KeyStep(EnterKey) /\ pc' = "validate")
           Entered == (pc = "await" /\ KeyStep(EnterKey)) => state' = "Validate"
           Resolved == state = "Validate" =>
                           /\ pc = "validate"
                           /\ state' \in {"Success", "Running"}
                           /\ pc' = "display"
           Others == (pc = "validate" /\ state # "Validate") =>
                         (state' = state /\ error' = error /\ pc' = "display")
       IN  kind = "text" => (Set /\ Entered /\ Resolved /\ Others)
      ]_vars

\* A text prompt about to render after its validator turned the input down:
\* Validate has become Running with the error stored
C37_Witness ==
    /\ kind = "text"
    /\ validator = "MinLen1"
    /\ pc = "display"
    /\ state = "Running"
    /\ input = <<>>
    /\ error # "None"


----------------------------------------------------------------------------
\* The prompt is as a render leaves a prompt that goes on: not done, the state
\* of a list prompt Running, the cursor of a filtered prompt inside the view.
\* (run() keeps no record of the event it took: the rest of an iteration is a
\* function of this state alone.)
AsRendered ==
    /\ state \in {"Created", "Running"}
    /\ kind \in ListKinds => state = "Running"
    /\ kind \in {"autocomplete", "multi"} =>
           current <= Max(Len(QueryView) - 1, 0)

\* C38: in every prompt type an iteration whose event is not a key event takes
\* the event without changing the prompt, renders once and awaits the next
\* event; state, buffer, cursors, selection and error stay as the previous
\* render left them, and run() does not end (but for the Err of a failed I/O
\* call of the render).
C38_OtherEventsChangeNothing ==
    [][LET Taken == (pc = "await" /\ OtherEv) =>
                        (UNCHANGED promptVars /\ result' = Pending)
           Validated == (pc = "validate" /\ AsRendered) =>
                            (UNCHANGED promptVars /\ pc' = "display")
           Rendered == (pc = "display" /\ AsRendered) =>
                           /\ UNCHANGED promptVars
                           /\ \/ pc' \in {"display", "check"} /\ result' = Pending
                              \/ pc' = "returned" /\ result'.tag = "Err"
           Resumed == (pc = "check" /\ AsRendered) =>
                          (UNCHANGED promptVars /\ pc' = "await" /\ result' = Pending)
       IN  Taken /\ Validated /\ Rendered /\ Resumed
      ]_vars


----------------------------------------------------------------------------
\* C39: a prompt that has hidden the terminal caret shows it again before
\* run() returns, whether it returns a value, None or an error: no run()
\* returns with the caret hidden.
C39_CaretShownOnReturn == pc = "returned" => caret


----------------------------------------------------------------------------
\* C40: the capacity min(limit, terminal_height - 1) that a render of a list
\* prompt computes on the u16 height never underflows and is in [0, limit] at
\* every height the terminal reports, 0 and 1 included: the render does not
\* panic, and a build with overflow checks and one without get the same value.
C40_CapacityInRange ==
    [][(/\ kind \in ListKinds
        /\ pc \in {"display0", "display"}
        /\ \E io \in {"ok", "write"} : DisplayStep(io))
       => /\ pc' # "panicked"
          /\ Capacity(height, TRUE) = Capacity(height, FALSE)
          /\ \A chk \in BOOLEAN : Capacity(height, chk) \in 0..Limit
      ]_vars

============================================================================
